---- MODULE Spec2Model ----
(***************************************************************************)
(* Model of the fin-news-site pipeline: the three connectors that merge    *)
(* freshly collected items into assets/data/news.json (scripts/x,          *)
(* scripts/tdnet, scripts/news/fetch-press.ts) and the pure client         *)
(* functions of assets/app.js (dedupeItems, estimateImportance).           *)
(***************************************************************************)
EXTENDS Integers, Sequences, FiniteSets, TLC

VARIABLES
  store,    \* contents of assets/data/news.json: a sequence of items
  last,     \* history: what the latest connector run read, collected and appended
  log,      \* history: every item a merge step has appended, in append order
  expect,   \* history: per connector, the id number the next appended item should get
  runs,     \* number of connector runs so far
  fetched,  \* number of items the runs so far have collected
  dIn,      \* dedupeItems: the array passed in
  dOut,     \* dedupeItems: the array returned
  dDone,    \* dedupeItems: has returned
  sItem,    \* estimateImportance: the item passed in
  sNow,     \* estimateImportance: the value of new Date().getTime()
  sOut,     \* estimateImportance: the value returned
  sDone,    \* estimateImportance: has returned
  nIn,      \* normalizeItem: the raw record passed in
  nRnd,     \* normalizeItem: the value cryptoRandomId() would return
  nOut,     \* normalizeItem: the item returned
  nOut2,    \* normalizeItem: the item returned when nOut is normalized again
  nStep,    \* normalizeItem: number of calls made (0, 1, 2)
  json,     \* browser: the body of assets/data/news.json as fetched
  all,      \* browser: state.all
  view,     \* browser: state.view
  qstate,   \* browser: state.filter, type, issuer, query, sort, dedupe, onlyWithin24h
  phase,    \* browser: "loading" until loadData has completed, then "ready"
  loadedWith, \* history: state.onlyWithin24h at the moment loadData completed
  emptyHidden, \* browser: el.empty.hidden
  job       \* one connector process: where its main() stands and what it holds

connVars  == <<store, last, log, expect, runs, fetched>>
dedVars   == <<dIn, dOut, dDone>>
scoreVars == <<sItem, sNow, sOut, sDone>>
normVars  == <<nIn, nRnd, nOut, nOut2, nStep>>
webVars   == <<json, all, view, qstate, phase, loadedWith, emptyHidden>>
jobVars   == <<job>>
vars      == <<store, last, log, expect, runs, fetched, dIn, dOut, dDone, sItem, sNow, sOut, sDone,
               nIn, nRnd, nOut, nOut2, nStep, json, all, view, qstate, phase, loadedWith,
               emptyHidden, job>>

----------------------------------------------------------------------------
(* Bounds of the model *)

MaxRuns      == 2   \* connector runs in one behaviour
MaxBatch     == 2   \* items one run collects (Spec)
MaxFetched   == 3   \* items all runs of one behaviour collect (Spec)
MaxInitStore == 2   \* items in the initial news.json (Spec)
MaxFresh     == 11  \* items one run collects (SpecIds)
MaxDedupe    == 3   \* items passed to dedupeItems
MaxJson      == 2   \* records in the news.json the page loads
MaxQueryJson == 3   \* records in the news.json the page loads (SpecQuery)
MaxTargets   == 2   \* accounts, codes or sites one connector process visits (SpecJob)
MaxPage      == 2   \* posts, rows or links one visited page shows (SpecJob)

----------------------------------------------------------------------------
(* Values *)

\* publishedAt: null (timestamps are the non-negative getTime() values)
Null == -1

\* 24*60*60*1000 ms
DayMs == 86400000

\* the instant at which press runs and the scorer read the clock
Now0 == 2 * DayMs

Connectors == {"x", "tdnet", "press"}

Id(p, n) == [p |-> p, n |-> n]

ExampleUrl == "https://example.com/a"

Range(s) == {s[i] : i \in DOMAIN s}

----------------------------------------------------------------------------
(* scripts/x: clean mode *)

CLEAN_MODE == TRUE

\* /(^|\/\/)example\.com/i.test(x.url)
isExample(x) == x.url = ExampleUrl

\* /^sns-(1[0-4])$/.test(x.id)
isDummyId(x) == x.id.p = "sns" /\ x.id.n \in 10..14

XClean(existing) ==
  IF CLEAN_MODE
  THEN SelectSeq(existing, LAMBDA x : ~(isExample(x) \/ isDummyId(x)))
  ELSE existing

----------------------------------------------------------------------------
(* calcNextIdStart: 1 + the largest numeric suffix of the ids "<prefix>-N" *)

RECURSIVE MaxSuffix(_, _, _)
MaxSuffix(items, prefix, max) ==
  IF items = << >> THEN max
  ELSE LET it == Head(items)
           m  == IF it.id.p = prefix /\ it.id.n > max THEN it.id.n ELSE max
       IN MaxSuffix(Tail(items), prefix, m)

calcNextIdStart(items, prefix) == MaxSuffix(items, prefix, 0) + 1

calcNextIdStartX(items) == MaxSuffix(items, "sns", 0) + 1

\* variant: the counter restarts at the largest suffix itself
calcNextIdStartTdnetOffByOne(items) == MaxSuffix(items, "company", 0)

calcNextIdStartTdnet(items) == MaxSuffix(items, "company", 0) + 1

----------------------------------------------------------------------------
(* The merge loops: for (const c of added) { if (!c.url || existingUrls.has(c.url)) continue; ... } *)

ExistingUrls(existing) == {existing[i].url : i \in DOMAIN existing}

RECURSIVE XToAppend(_, _, _)
XToAppend(added, existingUrls, idCounter) ==
  IF added = << >> THEN << >>
  ELSE LET c == Head(added) IN
       IF c.url = "" \/ c.url \in existingUrls
       THEN XToAppend(Tail(added), existingUrls, idCounter)
       ELSE <<[c EXCEPT !.id = Id("sns", idCounter)]>>
              \o XToAppend(Tail(added), existingUrls, idCounter + 1)

\* variant: the loop skips only empty urls and never looks at existingUrls
RECURSIVE TdnetToAppendNoUrlCheck(_, _, _)
TdnetToAppendNoUrlCheck(added, existingUrls, idCounter) ==
  IF added = << >> THEN << >>
  ELSE LET n == Head(added) IN
       IF n.url = ""
       THEN TdnetToAppendNoUrlCheck(Tail(added), existingUrls, idCounter)
       ELSE <<[n EXCEPT !.id = Id("company", idCounter)]>>
              \o TdnetToAppendNoUrlCheck(Tail(added), existingUrls, idCounter + 1)

RECURSIVE TdnetToAppend(_, _, _)
TdnetToAppend(added, existingUrls, idCounter) ==
  IF added = << >> THEN << >>
  ELSE LET n == Head(added) IN
       IF n.url = "" \/ n.url \in existingUrls
       THEN TdnetToAppend(Tail(added), existingUrls, idCounter)
       ELSE <<[n EXCEPT !.id = Id("company", idCounter)]>>
              \o TdnetToAppend(Tail(added), existingUrls, idCounter + 1)

\* variant: the loop adds each appended url to existingUrls
RECURSIVE PressToAppendUniq(_, _, _)
PressToAppendUniq(within24h, existingUrls, idCounter) ==
  IF within24h = << >> THEN << >>
  ELSE LET it == Head(within24h) IN
       IF it.url = "" \/ it.url \in existingUrls
       THEN PressToAppendUniq(Tail(within24h), existingUrls, idCounter)
       ELSE <<[it EXCEPT !.id = Id("news", idCounter)]>>
              \o PressToAppendUniq(Tail(within24h), existingUrls \cup {it.url}, idCounter + 1)

RECURSIVE PressToAppend(_, _, _)
PressToAppend(within24h, existingUrls, idCounter) ==
  IF within24h = << >> THEN << >>
  ELSE LET it == Head(within24h) IN
       IF it.url = "" \/ it.url \in existingUrls
       THEN PressToAppend(Tail(within24h), existingUrls, idCounter)
       ELSE <<[it EXCEPT !.id = Id("news", idCounter)]>>
              \o PressToAppend(Tail(within24h), existingUrls, idCounter + 1)

\* press: collected.filter(it => publishedAt within the last 24h of Date.now())
Within24h(collected, now) ==
  SelectSeq(collected, LAMBDA it :
     /\ it.publishedAt # Null
     /\ now - it.publishedAt >= 0
     /\ now - it.publishedAt <= DayMs)

\* variant: the file is rewritten even when nothing is appended
MergeWritesAlways(toAppend) == TRUE

\* if (toAppend.length === 0) return;  else writeFileSync(merged)
MergeWrites(toAppend) == Len(toAppend) > 0

----------------------------------------------------------------------------
(* History bookkeeping shared by the three runs *)

Prefix(conn) == CASE conn = "x" -> "sns" [] conn = "tdnet" -> "company" [] OTHER -> "news"

PrefixEmpty(items, prefix) == \A i \in DOMAIN items : items[i].id.p # prefix

IdNums(items) == [i \in DOMAIN items |-> items[i].id.n]

Record(conn, pre, base, fetch, batch, toAppend, wrote) ==
  /\ last' = [conn |-> conn, pre |-> pre, base |-> base, batch |-> batch,
              appended |-> toAppend, wrote |-> wrote, expected |-> expect[conn]]
  /\ log' = log \o toAppend
  /\ expect' = [expect EXCEPT ![conn] =
        IF toAppend = << >> THEN @
        ELSE IF PrefixEmpty(pre, Prefix(conn)) THEN Len(toAppend) + 1 ELSE 0]
  /\ runs' = runs + 1
  /\ fetched' = fetched + Len(fetch)

----------------------------------------------------------------------------
(* Connector runs: each is one whole main() *)

\* scripts/x main(): clean, fetch all accounts, re-read, merge
XRun(added) ==
  /\ runs < MaxRuns
  /\ LET existing           == XClean(store)
         existingAfterClean == existing
         existingUrls       == ExistingUrls(existingAfterClean)
         toAppend           == IF added = << >> THEN << >>
                               ELSE XToAppend(added, existingUrls,
                                              calcNextIdStartX(existingAfterClean))
         wrote              == added # << >> /\ MergeWrites(toAppend)
     IN /\ store' = IF wrote THEN existingAfterClean \o toAppend ELSE existing
        /\ Record("x", store, existingAfterClean, added, added, toAppend, wrote)
  /\ UNCHANGED <<dedVars, scoreVars, normVars, webVars, jobVars>>

\* scripts/tdnet main(): fetch all codes, read, merge
TdnetRun(added) ==
  /\ runs < MaxRuns
  /\ LET existing     == store
         existingUrls == ExistingUrls(existing)
         toAppend     == IF added = << >> THEN << >>
                         ELSE TdnetToAppend(added, existingUrls,
                                            calcNextIdStartTdnet(existing))
         wrote        == added # << >> /\ MergeWrites(toAppend)
     IN /\ store' = IF wrote THEN existing \o toAppend ELSE store
        /\ Record("tdnet", store, existing, added, added, toAppend, wrote)
  /\ UNCHANGED <<dedVars, scoreVars, normVars, webVars, jobVars>>

\* scripts/news/fetch-press.ts main(): collect, keep the last 24h, read, merge
PressRun(collected, now) ==
  /\ runs < MaxRuns
  /\ LET within24h    == Within24h(collected, now)
         existing     == store
         existingUrls == ExistingUrls(existing)
         toAppend     == IF collected = << >> \/ within24h = << >> THEN << >>
                         ELSE PressToAppend(within24h, existingUrls,
                                            calcNextIdStart(existing, "news"))
         wrote        == within24h # << >> /\ MergeWrites(toAppend)
     IN /\ store' = IF wrote THEN existing \o toAppend ELSE store
        /\ Record("press", store, existing, collected, within24h, toAppend, wrote)
  /\ UNCHANGED <<dedVars, scoreVars, normVars, webVars, jobVars>>

----------------------------------------------------------------------------
(* Inputs of the connector specifications *)

\* what a fetch returns: a candidate with the placeholder id "<prefix>-0"
Candidate(prefix, url, title, publishedAt) ==
  [id |-> Id(prefix, 0), url |-> url, title |-> title, publishedAt |-> publishedAt]

BatchUrls == {"", "u1", "u4"}

\* X and TDnet candidates: publishedAt plays no part in their merge
XCandidates == {Candidate("sns", u, "t", Null) : u \in BatchUrls}

TdnetCandidates == {Candidate("company", u, "t", Null) : u \in BatchUrls}

\* press candidates: published within the last 24h of Now0, or earlier
PressCandidates ==
  {Candidate("news", u, "t", Now0 - 1) : u \in BatchUrls}
    \cup {Candidate("news", "u4", "t", Now0 - DayMs - 1)}

SeqsUpTo(S, n) == UNION {[1..k -> S] : k \in 0..n}

XBatches == SeqsUpTo(XCandidates, MaxBatch)

TdnetBatches == SeqsUpTo(TdnetCandidates, MaxBatch)

PressBatches == SeqsUpTo(PressCandidates, MaxBatch)

InitItems ==
  { [id |-> Id("sns", 9),     url |-> "u1",       title |-> "a", publishedAt |-> Null],
    [id |-> Id("sns", 12),    url |-> ExampleUrl, title |-> "dummy", publishedAt |-> Null],
    [id |-> Id("company", 2), url |-> "u2",       title |-> "b", publishedAt |-> Now0 - 1],
    [id |-> Id("market", 1),  url |-> "u3",       title |-> "c", publishedAt |-> Null] }

DistinctIds(items) ==
  \A i, j \in DOMAIN items : i # j => items[i].id # items[j].id

InitStores == {s \in SeqsUpTo(InitItems, MaxInitStore) : DistinctIds(s)}

NoRun == [conn |-> "none", pre |-> << >>, base |-> << >>, batch |-> << >>,
          appended |-> << >>, wrote |-> FALSE, expected |-> 0]

NoItem == [category |-> "market", type |-> "", tickers |-> << >>, publishedAt |-> Null,
           tags |-> << >>, title |-> << >>]

\* const state = { all: [], view: [], filter: 'all', query: '', sort: 'date_desc', ... }
DefaultQuery ==
  [filter |-> "all", query |-> << >>, sort |-> "date_desc", type |-> "all",
   issuer |-> "all", dedupe |-> TRUE, onlyWithin24h |-> TRUE]

IdleNormalize ==
  /\ nIn = << >> /\ nRnd = "" /\ nOut = << >> /\ nOut2 = << >> /\ nStep = 0

IdleWeb ==
  /\ json = << >> /\ all = << >> /\ view = << >> /\ qstate = DefaultQuery
  /\ phase = "loading" /\ loadedWith = TRUE /\ emptyHidden = TRUE

\* no connector process is followed step by step
NoJob ==
  [conn |-> "none", pc |-> "exited", perLimit |-> 0, globalLimit |-> 0, pre |-> << >>,
   existing |-> << >>, added |-> << >>, idx |-> 0, tried |-> << >>, failed |-> {},
   lists |-> << >>, base |-> << >>, others |-> 0]

IdleJob == job = NoJob

IdlePage == IdleNormalize /\ IdleWeb /\ IdleJob

IdleClient ==
  /\ IdlePage
  /\ dIn = << >> /\ dOut = << >> /\ dDone = FALSE
  /\ sItem = NoItem /\ sNow = 0 /\ sOut = 0 /\ sDone = FALSE

Init ==
  /\ store \in InitStores
  /\ last = NoRun
  /\ log = << >>
  /\ expect = [c \in Connectors |-> 0]
  /\ runs = 0
  /\ fetched = 0
  /\ IdleClient

Fits(batch) == fetched + Len(batch) <= MaxFetched

Next ==
  \/ \E added \in XBatches : Fits(added) /\ XRun(added)
  \/ \E added \in TdnetBatches : Fits(added) /\ TdnetRun(added)
  \/ \E collected \in PressBatches : Fits(collected) /\ PressRun(collected, Now0)

Spec == Init /\ [][Next]_vars

----------------------------------------------------------------------------
(* Id numbering over long runs: every run collects the first k of MaxFresh urls *)

FreshUrls == <<"f1", "f2", "f3", "f4", "f5", "f6", "f7", "f8", "f9", "f10", "f11", "f12">>

FreshBatch(prefix, k) == [i \in 1..k |-> Candidate(prefix, FreshUrls[i], "t", Now0 - 1)]

InitIds ==
  /\ store = << >>
  /\ last = NoRun
  /\ log = << >>
  /\ expect = [c \in Connectors |-> 0]
  /\ runs = 0
  /\ fetched = 0
  /\ IdleClient

NextIds ==
  \/ \E k \in 0..MaxFresh : XRun(FreshBatch("sns", k))
  \/ \E k \in 0..MaxFresh : TdnetRun(FreshBatch("company", k))
  \/ \E k \in 0..MaxFresh : PressRun(FreshBatch("news", k), Now0)

SpecIds == InitIds /\ [][NextIds]_vars

----------------------------------------------------------------------------
(* assets/app.js: dedupeItems.  Strings are sequences of one-character strings. *)

IsSpace(c) == c \in {" ", "\t", "\n"}

\* String.prototype.trim
RECURSIVE TrimLeft(_)
TrimLeft(s) == IF s # << >> /\ IsSpace(Head(s)) THEN TrimLeft(Tail(s)) ELSE s

RECURSIVE TrimRight(_)
TrimRight(s) ==
  IF s # << >> /\ IsSpace(s[Len(s)]) THEN TrimRight(SubSeq(s, 1, Len(s) - 1)) ELSE s

Trim(s) == TrimRight(TrimLeft(s))

\* String.prototype.toLowerCase
LowerChar(c) ==
  CASE c = "T" -> "t" [] c = "U" -> "u" [] c = "A" -> "a"
    [] c = "EPS" -> "eps" [] c = "FX" -> "fx" [] c = "GDP" -> "gdp"
    [] c = "Sony" -> "sony" [] c = "SONY" -> "sony"
    [] OTHER -> c

ToLowerCase(s) == [i \in DOMAIN s |-> LowerChar(s[i])]

\* s.replace(/\s+/g, ' ')
RECURSIVE CollapseSpaces(_)
CollapseSpaces(s) ==
  IF s = << >> THEN << >>
  ELSE IF IsSpace(Head(s))
       THEN <<" ">> \o CollapseSpaces(TrimLeft(s))
       ELSE <<Head(s)>> \o CollapseSpaces(Tail(s))

\* u.replace(/[#?].*$/, ''): cut at the first '#' or '?' that no line break follows
StripQueryHash(u) ==
  LET P == {p \in DOMAIN u : /\ u[p] \in {"#", "?"}
                             /\ \A q \in DOMAIN u : q > p => u[q] # "\n"}
  IN IF P = {} THEN u
     ELSE SubSeq(u, 1, (CHOOSE p \in P : \A r \in P : p <= r) - 1)

\* (it.title || '').trim().toLowerCase().replace(/\s+/g,' ')
TitleKey(title) == CollapseSpaces(ToLowerCase(Trim(title)))

\* (it.url || '').trim() with the query and hash removed
KeyUrl(url) == StripQueryHash(Trim(url))

\* variant: the title comparison without the guard on empty keys
TitleHitNoGuard(keep, titleKey) ==
  \E i \in DOMAIN keep : TitleKey(keep[i].title) = titleKey

\* keep.some(k => { t = key(k.title); return t && titleKey && t === titleKey })
TitleHit(keep, titleKey) ==
  \E i \in DOMAIN keep :
     LET t == TitleKey(keep[i].title)
     IN t # << >> /\ titleKey # << >> /\ t = titleKey

RECURSIVE DedupeLoop(_, _, _)
DedupeLoop(arr, seenUrl, keep) ==
  IF arr = << >> THEN keep
  ELSE LET it       == Head(arr)
           keyUrl   == KeyUrl(it.url)
           titleKey == TitleKey(it.title)
           urlHit   == keyUrl # << >> /\ keyUrl \in seenUrl
           titleHit == TitleHit(keep, titleKey)
       IN IF urlHit \/ titleHit
          THEN DedupeLoop(Tail(arr), seenUrl, keep)
          ELSE DedupeLoop(Tail(arr),
                          IF keyUrl # << >> THEN seenUrl \cup {keyUrl} ELSE seenUrl,
                          Append(keep, it))

dedupeItems(arr) == DedupeLoop(arr, {}, << >>)

DedupeCall ==
  /\ ~dDone
  /\ dOut' = dedupeItems(dIn)
  /\ dDone' = TRUE
  /\ UNCHANGED <<dIn, connVars, scoreVars, normVars, webVars, jobVars>>

\* the urls and titles the arrays are built from
DedupeUrls ==
  { <<"a">>, <<"a", "?", "x">>, <<" ", "a", "#">>, <<"b">>, <<"?", "x">> }

DedupeTitles ==
  { <<"t">>, <<"T", " ">>, <<" ">>, <<"t", " ", " ", "U">>, <<"t", " ", "u">> }

DedupeItems == {[url |-> u, title |-> t] : u \in DedupeUrls, t \in DedupeTitles}

IdleConnectors ==
  /\ IdlePage
  /\ store = << >> /\ last = NoRun /\ log = << >>
  /\ expect = [c \in Connectors |-> 0] /\ runs = 0 /\ fetched = 0

InitDedupe ==
  /\ dIn \in SeqsUpTo(DedupeItems, MaxDedupe)
  /\ dOut = << >>
  /\ dDone = FALSE
  /\ sItem = NoItem /\ sNow = 0 /\ sOut = 0 /\ sDone = FALSE
  /\ IdleConnectors

NextDedupe == DedupeCall

SpecDedupe == InitDedupe /\ [][NextDedupe]_vars

----------------------------------------------------------------------------
(* assets/app.js: estimateImportance *)

\* /警戒|急落|緊急|利下げ|利上げ|サプライズ|速報|決算|下方修正|上方修正|通期/ , one word each
UrgencyWords ==
  { "keikai", "kyuraku", "kinkyu", "risage", "riage", "surprise", "sokuho",
    "kessan", "kahoshusei", "johoshusei", "tsuki" }

\* (item.tags || []).join(' ').toLowerCase() + ' ' + (item.title||'').toLowerCase():
\* the words of the tags followed by the words of the title
TagText(item) == item.tags \o item.title

CategoryBonus(item) ==
  (IF item.category = "market" THEN 1 ELSE 0)
  + (IF item.category = "company" /\ item.type \in {"earnings", "disclosure"} THEN 2 ELSE 0)

\* variant: the second type rule is an else-branch of the company rule
TypeBonusNoStack(item) ==
  (IF item.type \in {"macro", "fx", "equityIndex"} THEN 2 ELSE 0)
  + (IF item.type \in {"earnings", "disclosure"} /\ item.category # "company" THEN 1 ELSE 0)

TypeBonus(item) ==
  (IF item.type \in {"macro", "fx", "equityIndex"} THEN 2 ELSE 0)
  + (IF item.type \in {"earnings", "disclosure"} THEN 1 ELSE 0)

TickerBonus(item) == IF Len(item.tickers) > 0 THEN 1 ELSE 0

\* item.publishedAt && (now.getTime() - item.publishedAt.getTime()) <= 24*60*60*1000
FreshnessBonus(item, now) ==
  IF item.publishedAt # Null /\ now - item.publishedAt <= DayMs THEN 1 ELSE 0

UrgencyBonus(item) ==
  IF \E i \in DOMAIN TagText(item) : TagText(item)[i] \in UrgencyWords THEN 1 ELSE 0

RawScore(item, now) ==
  1 + CategoryBonus(item) + TypeBonus(item) + TickerBonus(item)
    + FreshnessBonus(item, now) + UrgencyBonus(item)

Min(a, b) == IF a <= b THEN a ELSE b
Max(a, b) == IF a >= b THEN a ELSE b

\* variant: the score is returned without the clamp
estimateImportanceUnclamped(item, now) == RawScore(item, now)

estimateImportance(item, now) == Max(1, Min(5, RawScore(item, now)))

ScoreCall ==
  /\ ~sDone
  /\ sOut' = estimateImportance(sItem, sNow)
  /\ sDone' = TRUE
  /\ UNCHANGED <<sItem, sNow, connVars, dedVars, normVars, webVars, jobVars>>

Categories == {"market", "company", "sns"}
Types == {"earnings", "disclosure", "macro", "fx", "equityIndex", "companyNews", "marketNews"}

\* publishedAt relative to the clock: unknown, older than 24h, exactly 24h, recent, now, later
ScorePubs == {Null, Now0 - DayMs - 1, Now0 - DayMs, Now0 - 1, Now0, Now0 + 1}

ScoreItems ==
  { [category |-> c, type |-> t, tickers |-> k, publishedAt |-> p, tags |-> g, title |-> w] :
      c \in Categories, t \in Types, k \in {<< >>, <<"7203.T">>}, p \in ScorePubs,
      g \in {<< >>, <<"kabu">>, <<"kessan">>}, w \in {<<"nikkei">>, <<"sokuho">>} }

InitScore ==
  /\ sItem \in ScoreItems
  /\ sNow = Now0
  /\ sOut = 0
  /\ sDone = FALSE
  /\ dIn = << >> /\ dOut = << >> /\ dDone = FALSE
  /\ IdleConnectors

NextScore == ScoreCall

SpecScore == InitScore /\ [][NextScore]_vars

----------------------------------------------------------------------------
(* assets/app.js: normalizeItem.  A raw record is a record whose DOMAIN is the  *)
(* set of fields the JSON object carries; string fields are sequences of        *)
(* symbols, a tag or ticker is one symbol.                                      *)

Has(x, f) == f \in DOMAIN x

\* x.publishedAt of a record without that field
Undefined == -3

\* a publishedAt string that new Date() cannot parse
BadDate == -2

\* '(タイトル不明)'
UnknownTitle == <<"(untitled)">>

\* const d = new Date(v); return isNaN(+d) ? null : d   (new Date(null) is the epoch)
parseDate(v) ==
  CASE v = Undefined -> Null
    [] v = BadDate   -> Null
    [] v = Null      -> 0
    [] OTHER         -> v

\* tags.join(' ')
RECURSIVE JoinTags(_)
JoinTags(tags) ==
  IF tags = << >> THEN << >>
  ELSE IF Len(tags) = 1 THEN <<Head(tags)>>
  ELSE <<Head(tags), " ">> \o JoinTags(Tail(tags))

\* /決算|業績|通期|四半期|eps|売上|ガイダンス/
EarningsWords == {"kessan", "gyoseki", "tsuki", "shihanki", "eps", "uriage", "guidance"}
\* /開示|適時開示|有報|短信|ir/
DisclosureWords == {"kaiji", "tekijikaiji", "yuho", "tanshin", "ir"}
\* /為替|ドル円|usd\/jpy|fx/
FxWords == {"kawase", "dollyen", "usd/jpy", "fx"}
\* /cpi|pmi|gdp|景気|マクロ|失業|物価|政策|日銀|fomc/
MacroWords == {"cpi", "pmi", "gdp", "keiki", "macro", "shitsugyo", "bukka", "seisaku",
               "nichigin", "fomc"}
\* /日経平均|topix|sp500|指数|先物|オプション/
EquityIndexWords == {"nikkeiheikin", "topix", "sp500", "shisu", "sakimono", "option"}

\* regex.test(t)
Test(words, t) == \E i \in DOMAIN t : t[i] \in words

\* variant: the fx and macro rules come before the earnings and disclosure rules
InferTypeFxFirst(t, cat) ==
  IF Test(FxWords, t) THEN "fx"
  ELSE IF Test(MacroWords, t) THEN "macro"
  ELSE IF Test(EarningsWords, t) THEN "earnings"
  ELSE IF Test(DisclosureWords, t) THEN "disclosure"
  ELSE IF Test(EquityIndexWords, t) THEN "equityIndex"
  ELSE IF cat = "company" THEN "companyNews" ELSE "marketNews"

\* the if / else-if chain of the type estimate
InferType(t, cat) ==
  IF Test(EarningsWords, t) THEN "earnings"
  ELSE IF Test(DisclosureWords, t) THEN "disclosure"
  ELSE IF Test(FxWords, t) THEN "fx"
  ELSE IF Test(MacroWords, t) THEN "macro"
  ELSE IF Test(EquityIndexWords, t) THEN "equityIndex"
  ELSE IF cat = "company" THEN "companyNews" ELSE "marketNews"

\* variant: the type is estimated from the text even when the record carries one
TypeOrEstimateAlways(type0, t, cat) == InferType(t, cat)

\* let type = (x.type || '').toString(); if(!type){ ... }
TypeOrEstimate(type0, t, cat) == IF type0 = "" THEN InferType(t, cat) ELSE type0

\* variant: the tags are kept without the cut
Slice8Whole(tags) == tags

\* x.tags.slice(0,8)
Slice8(tags) == SubSeq(tags, 1, Min(8, Len(tags)))

\* variant: a field that is present but empty is kept as it is
StrOrKeepEmpty(x, f, dflt) == IF Has(x, f) THEN x[f] ELSE dflt

\* (x.f || dflt).toString() for a string field
StrOr(x, f, dflt) == IF Has(x, f) /\ x[f] # << >> THEN x[f] ELSE dflt

normalizeItem(x, rnd) ==
  LET cat       == IF Has(x, "category") /\ x.category \in Categories
                   THEN x.category ELSE "market"
      title     == StrOr(x, "title", UnknownTitle)
      summary   == StrOr(x, "summary", << >>)
      source    == StrOr(x, "source", << >>)
      url       == IF Has(x, "url") THEN x.url ELSE << >>
      published == parseDate(IF Has(x, "publishedAt") THEN x.publishedAt ELSE Undefined)
      tags      == IF Has(x, "tags") THEN Slice8(x.tags) ELSE << >>
      locale    == IF Has(x, "locale") /\ x.locale # "" THEN x.locale ELSE "ja"
      verified  == ~(Has(x, "verified") /\ x.verified = FALSE)
      thumbnail == IF Has(x, "thumbnail") THEN x.thumbnail ELSE ""
      type0     == IF Has(x, "type") THEN x.type ELSE ""
      tickers   == IF Has(x, "tickers") THEN x.tickers ELSE << >>
      t         == ToLowerCase(title \o <<" ">> \o summary \o <<" ">> \o JoinTags(tags))
      type      == TypeOrEstimate(type0, t, cat)
      issuer    == IF cat = "company" THEN "withIssuer" ELSE "noIssuer"
  IN [ id |-> IF Has(x, "id") /\ x.id # "" THEN x.id ELSE rnd,
       category |-> cat, title |-> title, summary |-> summary, source |-> source,
       url |-> url, publishedAt |-> published, tags |-> tags, locale |-> locale,
       verified |-> verified, thumbnail |-> thumbnail, type |-> type,
       tickers |-> tickers, issuer |-> issuer ]

NormalizeCall ==
  /\ nStep = 0
  /\ nOut' = normalizeItem(nIn, nRnd)
  /\ nStep' = 1
  /\ UNCHANGED <<nIn, nRnd, nOut2, connVars, dedVars, scoreVars, webVars, jobVars>>

\* the returned item is normalized once more
NormalizeAgain ==
  /\ nStep = 1
  /\ nOut2' = normalizeItem(nOut, nRnd)
  /\ nStep' = 2
  /\ UNCHANGED <<nIn, nRnd, nOut, connVars, dedVars, scoreVars, webVars, jobVars>>

\* the raw records: every choice of present and absent fields below
Opt(f, values) == {<< >>} \cup {f :> v : v \in values}

NineTags == <<"t1", "t2", "t3", "t4", "t5", "t6", "t7", "t8", "topix">>

RawRecords ==
  { [url |-> <<"a">>] @@ c @@ t @@ s @@ g @@ y @@ p @@ v @@ r :
      c \in Opt("category", {"company", "sns", "bogus"}),
      t \in Opt("title", {<< >>, <<"EPS">>, <<"kaiji", "fx">>, <<"nikkei">>}),
      s \in Opt("summary", {<<"gdp">>}),
      g \in Opt("tags", {<<"topix">>, <<"FX", "ir">>, NineTags}),
      y \in Opt("type", {"", "disclosure", "policy"}),
      p \in Opt("publishedAt", {Null, BadDate, Now0}),
      v \in Opt("verified", {TRUE, FALSE}),
      r \in Opt("id", {"sns-1"}) }

RandomIds == {"0f3a9c", "b71e02"}

InitNormalize ==
  /\ nIn \in RawRecords
  /\ nRnd \in RandomIds
  /\ nOut = << >> /\ nOut2 = << >> /\ nStep = 0
  /\ IdleWeb /\ IdleJob
  /\ dIn = << >> /\ dOut = << >> /\ dDone = FALSE
  /\ sItem = NoItem /\ sNow = 0 /\ sOut = 0 /\ sDone = FALSE
  /\ store = << >> /\ last = NoRun /\ log = << >>
  /\ expect = [c \in Connectors |-> 0] /\ runs = 0 /\ fetched = 0

NextNormalize == NormalizeCall \/ NormalizeAgain

SpecNormalize == InitNormalize /\ [][NextNormalize]_vars

----------------------------------------------------------------------------
(* assets/app.js: loadData, applyFilter, render and the event handlers *)

\* variant: a record without the verified field is dropped as well
LoadableNeedsVerified(x) ==
  Has(x, "url") /\ x.url # << >> /\ Has(x, "verified") /\ x.verified = TRUE

\* x && x.url && x.verified !== false
Loadable(x) ==
  Has(x, "url") /\ x.url # << >> /\ ~(Has(x, "verified") /\ x.verified = FALSE)

\* the load-time test: publishedAt set, diff >= 0 && diff <= 24h
LoadRecent(x, now) ==
  /\ x.publishedAt # Null
  /\ now - x.publishedAt >= 0
  /\ now - x.publishedAt <= DayMs

\* cryptoRandomId(): the k-th call of one load returns the k-th of these
RandomIdAt(k) == <<"rnd", k>>

loadData(items, onlyWithin24h, now) ==
  LET kept == SelectSeq(items, Loadable)
      norm == [k \in DOMAIN kept |-> normalizeItem(kept[k], RandomIdAt(k))]
  IN SelectSeq(norm, LAMBDA x : ~onlyWithin24h \/ LoadRecent(x, now))

\* variant: the render-time test without the 24h limit
RecentNoLimit(x, now) ==
  /\ x.publishedAt # Null
  /\ now - x.publishedAt >= 0

\* x.publishedAt && (now - publishedAt) <= 24h && (now - publishedAt) >= 0
Recent(x, now) ==
  /\ x.publishedAt # Null
  /\ now - x.publishedAt <= DayMs
  /\ now - x.publishedAt >= 0

\* String.prototype.includes
Includes(text, q) ==
  \E i \in 0..(Len(text) - Len(q)) : SubSeq(text, i + 1, i + Len(q)) = q

\* variant: only the title is searched
SearchHitTitleOnly(x, q) == Includes(ToLowerCase(x.title), q)

\* the predicate of the search stage; q is the lower-cased query
SearchHit(x, q) ==
  \/ Includes(ToLowerCase(x.title), q)
  \/ Includes(ToLowerCase(x.summary), q)
  \/ Includes(ToLowerCase(x.source), q)
  \/ \E i \in DOMAIN x.tags : Includes(ToLowerCase(<<x.tags[i]>>), q)
  \/ \E i \in DOMAIN x.tickers : Includes(ToLowerCase(<<x.tickers[i]>>), q)

\* the recency, category, type, issuer and search stages
FilterStages(items, st, now) ==
  LET s1 == IF st.onlyWithin24h THEN SelectSeq(items, LAMBDA x : Recent(x, now)) ELSE items
      s2 == IF st.filter # "all"
            THEN SelectSeq(s1, LAMBDA x : x.category = st.filter) ELSE s1
      s3 == IF st.type # "all" THEN SelectSeq(s2, LAMBDA x : x.type = st.type) ELSE s2
      s4 == IF st.issuer # "all"
            THEN SelectSeq(s3, LAMBDA x : x.issuer = st.issuer) ELSE s3
  IN IF st.query # << >>
     THEN SelectSeq(s4, LAMBDA x : SearchHit(x, ToLowerCase(st.query))) ELSE s4

\* if(state.dedupe) out = dedupeItems(out)
DedupeStage(items, st) == IF st.dedupe THEN dedupeItems(items) ELSE items

\* a.publishedAt?.getTime() || 0
DateKey(x) == IF x.publishedAt = Null THEN 0 ELSE x.publishedAt

\* the order localeCompare(.., 'ja') gives the symbols titles are made of
CollationOrder == <<" ", "(untitled)", "eps", "EPS", "fx", "news", "sony", "Sony", "SONY">>

CollationRank(c) == CHOOSE i \in DOMAIN CollationOrder : CollationOrder[i] = c

\* a.localeCompare(b, 'ja'): negative, zero or positive
RECURSIVE localeCompare(_, _)
localeCompare(a, b) ==
  IF a = << >> /\ b = << >> THEN 0
  ELSE IF a = << >> THEN -1
  ELSE IF b = << >> THEN 1
  ELSE IF Head(a) = Head(b) THEN localeCompare(Tail(a), Tail(b))
  ELSE CollationRank(Head(a)) - CollationRank(Head(b))

\* variant: a value the switch does not know leaves the order as it is
CompareNoDefault(a, b, sort) ==
  CASE sort = "date_asc"   -> DateKey(a) - DateKey(b)
    [] sort = "title_asc"  -> localeCompare(a.title, b.title)
    [] sort = "title_desc" -> localeCompare(b.title, a.title)
    [] sort = "date_desc"  -> DateKey(b) - DateKey(a)
    [] OTHER               -> 0

\* the comparator the switch on state.sort selects
Compare(a, b, sort) ==
  CASE sort = "date_asc"   -> DateKey(a) - DateKey(b)
    [] sort = "title_asc"  -> localeCompare(a.title, b.title)
    [] sort = "title_desc" -> localeCompare(b.title, a.title)
    [] OTHER               -> DateKey(b) - DateKey(a)

\* variant: x goes in front of the items it ties with
InsertBeforeTies(sorted, x, sort) ==
  LET after == {i \in DOMAIN sorted : Compare(sorted[i], x, sort) >= 0}
      at    == IF after = {} THEN Len(sorted) + 1
               ELSE CHOOSE i \in after : \A j \in after : i <= j
  IN SubSeq(sorted, 1, at - 1) \o <<x>> \o SubSeq(sorted, at, Len(sorted))

\* Array.prototype.sort is stable: x goes behind everything that does not sort after it
Insert(sorted, x, sort) ==
  LET after == {i \in DOMAIN sorted : Compare(sorted[i], x, sort) > 0}
      at    == IF after = {} THEN Len(sorted) + 1
               ELSE CHOOSE i \in after : \A j \in after : i <= j
  IN SubSeq(sorted, 1, at - 1) \o <<x>> \o SubSeq(sorted, at, Len(sorted))

RECURSIVE SortLoop(_, _, _)
SortLoop(rest, sorted, sort) ==
  IF rest = << >> THEN sorted
  ELSE SortLoop(Tail(rest), Insert(sorted, Head(rest), sort), sort)

\* out = out.slice(); out.sort(comparator)
SortStage(items, st) == SortLoop(items, << >>, st.sort)

\* variant: duplicates are removed before the filters run
applyFilterDedupeFirst(items, st, now) ==
  SortStage(FilterStages(DedupeStage(items, st), st, now), st)

applyFilter(items, st, now) ==
  SortStage(DedupeStage(FilterStages(items, st, now), st), st)

\* variant: the indicator is never shown
EmptyHiddenAlways(v) == TRUE

\* el.empty.hidden after render(): false exactly when state.view.length === 0
EmptyHidden(v) == Len(v) # 0

\* init(): loadData() resolves, then render()
LoadDone ==
  /\ phase = "loading"
  /\ all' = loadData(json, qstate.onlyWithin24h, Now0)
  /\ loadedWith' = qstate.onlyWithin24h
  /\ phase' = "ready"
  /\ view' = applyFilter(all', qstate, Now0)
  /\ emptyHidden' = EmptyHidden(view')
  /\ UNCHANGED <<json, qstate, connVars, dedVars, scoreVars, normVars, jobVars>>

\* what makes the try block of loadData throw
LoadFailures == {"fetch rejected", "response not ok", "invalid json", "not an array"}

\* init(): loadData() catches, sets state.all = [], then render()
LoadFail(failure) ==
  /\ phase = "loading"
  /\ failure \in LoadFailures
  /\ all' = << >>
  /\ phase' = "failed"
  /\ view' = applyFilter(all', qstate, Now0)
  /\ emptyHidden' = EmptyHidden(view')
  /\ UNCHANGED <<json, qstate, loadedWith, connVars, dedVars, scoreVars, normVars, jobVars>>

\* state changes to st, then render()
Render(st) ==
  /\ qstate' = st
  /\ view' = applyFilter(all, st, Now0)
  /\ emptyHidden' = EmptyHidden(view')
  /\ UNCHANGED <<json, all, phase, loadedWith, connVars, dedVars, scoreVars, normVars, jobVars>>

\* click on a[data-filter]
NavClick(f) == Render([qstate EXCEPT !.filter = f])

\* input on the search box
SearchInput(value) == Render([qstate EXCEPT !.query = Trim(value)])

\* change of the sort select
SortChange(value) == Render([qstate EXCEPT !.sort = value])

\* window 'news:set' with detail patch
NewsSet(patch) ==
  Render([k \in DOMAIN qstate |->
            IF k \in {"filter", "type", "issuer", "dedupe", "onlyWithin24h"} /\ Has(patch, k)
            THEN patch[k] ELSE qstate[k]])

\* the records news.json is made of
TenTags == <<"t1", "t2", "t3", "t4", "t5", "t6", "t7", "t8", "t9", "t10">>

\* a recent company item; its type is estimated from the title
RawCompany ==
  [url |-> <<"a">>, title |-> <<"Sony", "EPS">>, category |-> "company",
   publishedAt |-> Now0 - 1000, source |-> <<"Sony">>, tickers |-> <<"6758.T">>]

\* the same page behind a query string, published later; 'SONY' only as a tag
RawMarket ==
  [url |-> <<"a", "?", "x">>, title |-> <<"fx", "news">>, category |-> "market",
   publishedAt |-> Now0 - 10, tags |-> <<"SONY">>, verified |-> TRUE]

\* older than 24h, the title of RawCompany in another spelling, an explicit type
RawOld ==
  [url |-> <<"b">>, title |-> <<"sony", "eps", " ">>, category |-> "sns",
   publishedAt |-> Now0 - DayMs - 1, type |-> "policy", tickers |-> <<"SONY">>]

RawUnverified ==
  [url |-> <<"c">>, title |-> <<"Sony">>, category |-> "company",
   publishedAt |-> Now0 - 20, verified |-> FALSE]

RawNoUrl ==
  [title |-> <<"Sony">>, category |-> "market", publishedAt |-> Now0 - 30]

\* no title, no date, a category outside the enum, ten tags
RawBare == [url |-> <<"d">>, category |-> "bogus", tags |-> TenTags]

ClientRaws == {RawCompany, RawMarket, RawOld, RawUnverified, RawNoUrl, RawBare}

JsonFiles == SeqsUpTo(ClientRaws, MaxJson)

NavFilters == {"all", "company"}

SearchInputs == {<< >>, <<" ">>, <<" ", "Sony">>}

SortValues == {"date_desc", "title_asc"}

Patches ==
  {<< >>} \cup {[filter |-> f] : f \in NavFilters}
          \cup {[type |-> t] : t \in {"all", "earnings"}}
          \cup {[issuer |-> i] : i \in {"all", "noIssuer"}}
          \cup {[dedupe |-> b] : b \in BOOLEAN}
          \cup {[onlyWithin24h |-> b] : b \in BOOLEAN}

InitClient ==
  /\ json \in JsonFiles
  /\ all = << >> /\ view = << >> /\ qstate = DefaultQuery
  /\ phase = "loading" /\ loadedWith = TRUE /\ emptyHidden \in BOOLEAN
  /\ IdleNormalize /\ IdleJob
  /\ dIn = << >> /\ dOut = << >> /\ dDone = FALSE
  /\ sItem = NoItem /\ sNow = 0 /\ sOut = 0 /\ sDone = FALSE
  /\ store = << >> /\ last = NoRun /\ log = << >>
  /\ expect = [c \in Connectors |-> 0] /\ runs = 0 /\ fetched = 0

NextClient ==
  \/ LoadDone
  \/ \E failure \in LoadFailures : LoadFail(failure)
  \/ \E f \in NavFilters : NavClick(f)
  \/ \E value \in SearchInputs : SearchInput(value)
  \/ \E value \in SortValues : SortChange(value)
  \/ \E patch \in Patches : NewsSet(patch)

SpecClient == InitClient /\ [][NextClient]_vars

\* a second file: dated, dated null by a connector, undated and dated later
RawDated ==
  [url |-> <<"a">>, title |-> <<"Sony">>, category |-> "company",
   publishedAt |-> Now0 - 1000]

RawNullDate ==
  [url |-> <<"b">>, title |-> <<"fx">>, category |-> "market", publishedAt |-> Null]

RawUndated == [url |-> <<"c">>, title |-> <<"news">>, category |-> "sns"]

RawLatest ==
  [url |-> <<"d">>, title |-> <<"Sony">>, category |-> "market",
   publishedAt |-> Now0 - 10]

QueryRaws == {RawDated, RawNullDate, RawUndated, RawLatest}

\* the four values of the sort select and one it does not offer
QuerySorts == {"date_desc", "date_asc", "title_asc", "title_desc", "relevance"}

\* patches that name no value of the category, type and issuer enums
QueryPatches ==
  {<< >>} \cup {[filter |-> f] : f \in {"all", "bogus"}}
          \cup {[type |-> t] : t \in {"all", "bogus"}}
          \cup {[issuer |-> i] : i \in {"all", "bogus"}}
          \cup {[dedupe |-> b] : b \in BOOLEAN}
          \cup {[onlyWithin24h |-> b] : b \in BOOLEAN}

InitQuery ==
  /\ json \in SeqsUpTo(QueryRaws, MaxQueryJson)
  /\ all = << >> /\ view = << >> /\ qstate = DefaultQuery
  /\ phase = "loading" /\ loadedWith = TRUE /\ emptyHidden = TRUE
  /\ IdleNormalize /\ IdleJob
  /\ dIn = << >> /\ dOut = << >> /\ dDone = FALSE
  /\ sItem = NoItem /\ sNow = 0 /\ sOut = 0 /\ sDone = FALSE
  /\ store = << >> /\ last = NoRun /\ log = << >>
  /\ expect = [c \in Connectors |-> 0] /\ runs = 0 /\ fetched = 0

NextQuery ==
  \/ LoadDone
  \/ \E value \in QuerySorts : SortChange(value)
  \/ \E patch \in QueryPatches : NewsSet(patch)

SpecQuery == InitQuery /\ [][NextQuery]_vars

----------------------------------------------------------------------------
(* The connectors step by step: one main() from its start to its exit, with the  *)
(* awaits of the target loop as the points where something else can run.         *)

Take(arr, n) == SubSeq(arr, 1, Min(Max(n, 0), Len(arr)))

\* uniqBy(arr, c => c.url)
RECURSIVE UniqByUrl(_, _)
UniqByUrl(arr, seen) ==
  IF arr = << >> THEN << >>
  ELSE IF Head(arr).url \in seen THEN UniqByUrl(Tail(arr), seen)
  ELSE <<Head(arr)>> \o UniqByUrl(Tail(arr), seen \cup {Head(arr).url})

\* scripts/x fetchFromAccount: candidates up to the limit, uniq by url, slice
fetchFromAccount(articles, limit) == Take(UniqByUrl(Take(articles, limit), {}), limit)

\* scripts/tdnet fetchTdnetByCode: rows up to the limit, uniq by url, slice
fetchTdnetByCode(rows, limit) == Take(UniqByUrl(Take(rows, limit), {}), limit)

\* fetch-press collectFromSite: up to perLimit * 5 links, uniq by href, then up to
\* perLimit of those whose article page gives a date
collectFromSite(anchors, perLimit) ==
  LET raw  == Take(anchors, perLimit * 5)
      uniq == UniqByUrl(raw, {})
  IN Take(SelectSeq(uniq, LAMBDA r : r.publishedAt # Null), perLimit)

\* collected.push(...list)
PressPush(collected, list, globalLimit) == collected \o list

\* variant: the copy read before the fetches is the merge base
XMergeBaseStale(existing, reread) == existing

\* existingAfterClean = JSON.parse(fs.readFileSync(NEWS_JSON)) after the account loop
XMergeBase(existing, reread) == reread

JobConst == <<last, log, expect, runs, fetched, dedVars, scoreVars, normVars, webVars>>

\* main() up to the target loop; X reads the file, cleans it and writes it back
JobStart ==
  /\ job.pc = "start"
  /\ LET existing == IF job.conn = "x" THEN XClean(store) ELSE << >>
     IN /\ store' = IF job.conn = "x" /\ Len(existing) < Len(store) THEN existing ELSE store
        /\ job' = [job EXCEPT !.pc = "fetch", !.pre = store, !.existing = existing]
  /\ UNCHANGED JobConst

\* the press page loop: if (collected.length >= GLOBAL_LIMIT) break
PressBreaks == job.conn = "press" /\ Len(job.added) >= job.globalLimit

\* one pass of the target loop in which the fetch returns
FetchReturns(page) ==
  /\ job.pc = "fetch" /\ job.idx < MaxTargets /\ ~PressBreaks
  /\ LET list == CASE job.conn = "x"     -> fetchFromAccount(page, job.perLimit)
                   [] job.conn = "tdnet" -> fetchTdnetByCode(page, job.perLimit)
                   [] OTHER              -> collectFromSite(page, job.perLimit)
     IN job' = [job EXCEPT !.idx = @ + 1,
                           !.tried = Append(@, job.idx + 1),
                           !.lists = Append(@, Len(list)),
                           !.added = IF job.conn = "press"
                                     THEN PressPush(@, list, job.globalLimit)
                                     ELSE @ \o list]
  /\ UNCHANGED <<store, JobConst>>

\* one pass in which page.goto or a locator throws: the press loop catches it, the
\* X and TDnet loops do not, main() rejects and the process exits with code 1
FetchThrows ==
  /\ job.pc = "fetch" /\ job.idx < MaxTargets /\ ~PressBreaks
  /\ job' = [job EXCEPT !.idx = @ + 1,
                        !.tried = Append(@, job.idx + 1),
                        !.failed = @ \cup {job.idx + 1},
                        !.pc = IF job.conn = "press" THEN "fetch" ELSE "crashed"]
  /\ UNCHANGED <<store, JobConst>>

\* the press loop passes a page without visiting it
PressSkips ==
  /\ job.pc = "fetch" /\ job.idx < MaxTargets /\ PressBreaks
  /\ job' = [job EXCEPT !.idx = @ + 1]
  /\ UNCHANGED <<store, JobConst>>

\* from the end of the target loop to the exit: no await between read and write
JobMerge ==
  /\ job.pc = "fetch" /\ job.idx = MaxTargets
  /\ LET base     == IF job.conn = "x" THEN XMergeBase(job.existing, store) ELSE store
         urls     == ExistingUrls(base)
         batch    == IF job.conn = "press" THEN Within24h(job.added, Now0) ELSE job.added
         toAppend ==
           IF batch = << >> THEN << >>
           ELSE CASE job.conn = "x" -> XToAppend(batch, urls, calcNextIdStartX(base))
                  [] job.conn = "tdnet" ->
                       TdnetToAppend(batch, urls, calcNextIdStartTdnet(base))
                  [] OTHER -> PressToAppend(batch, urls, calcNextIdStart(base, "news"))
     IN /\ store' = IF MergeWrites(toAppend) THEN base \o toAppend ELSE store
        /\ job' = [job EXCEPT !.pc = "exited", !.base = base]
  /\ UNCHANGED JobConst

\* another process appends one item to news.json while this one awaits a fetch
OtherUrl == "w1"

OtherWrite ==
  /\ job.pc = "fetch" /\ job.others = 0
  /\ store' = Append(store, [id |-> Id("market", 7), url |-> OtherUrl, title |-> "w",
                             publishedAt |-> Now0 - 1])
  /\ job' = [job EXCEPT !.others = 1]
  /\ UNCHANGED JobConst

\* what a visited page shows: X posts and TDnet rows can repeat across targets,
\* press links lie under the base of their site
SharedUrls == {"u1", "u5"}

SiteUrls ==
  << {"reuters/a", "reuters/b"}, {"nikkei/a", "nikkei/b"}, {"bloomberg/a", "bloomberg/b"},
     {"site4/a", "site4/b"} >>

JobPages ==
  CASE job.conn = "x" ->
         SeqsUpTo({Candidate("sns", u, "t", Null) : u \in SharedUrls}, MaxPage)
    [] job.conn = "tdnet" ->
         SeqsUpTo({Candidate("company", u, "t", Null) : u \in SharedUrls}, MaxPage)
    [] OTHER ->
         SeqsUpTo({Candidate("news", u, "t", Now0 - 1) : u \in SiteUrls[job.idx + 1]},
                  MaxPage)

JobStores ==
  { << >>,
    << [id |-> Id("sns", 9), url |-> "u1", title |-> "a", publishedAt |-> Null] >>,
    << [id |-> Id("sns", 12), url |-> ExampleUrl, title |-> "dummy", publishedAt |-> Null],
       [id |-> Id("company", 2), url |-> "u2", title |-> "b", publishedAt |-> Now0 - 1] >> }

\* PER_ACCOUNT_LIMIT, PER_CODE_LIMIT, PRESS_PER_SITE_LIMIT and PRESS_GLOBAL_LIMIT
PerLimits == {1, 2}

GlobalLimits == {1, 3}

InitJob ==
  /\ store \in JobStores
  /\ \E conn \in Connectors, per \in PerLimits, glob \in GlobalLimits :
       job = [NoJob EXCEPT !.conn = conn, !.pc = "start", !.perLimit = per,
                           !.globalLimit = IF conn = "press" THEN glob ELSE 0]
  /\ last = NoRun /\ log = << >> /\ expect = [c \in Connectors |-> 0]
  /\ runs = 0 /\ fetched = 0
  /\ IdleNormalize /\ IdleWeb
  /\ dIn = << >> /\ dOut = << >> /\ dDone = FALSE
  /\ sItem = NoItem /\ sNow = 0 /\ sOut = 0 /\ sDone = FALSE

NextJob ==
  \/ JobStart
  \/ \E page \in JobPages : FetchReturns(page)
  \/ FetchThrows
  \/ PressSkips
  \/ JobMerge
  \/ OtherWrite

SpecJob == InitJob /\ [][NextJob]_vars

----------------------------------------------------------------------------
(* Properties of the merge step *)

\* what the merge step of the latest connector would append if it ran once more,
\* with the same batch, against the collection now persisted
RerunAppends ==
  CASE last.conn = "x" ->
         XToAppend(last.batch, ExistingUrls(store), calcNextIdStartX(store))
    [] last.conn = "tdnet" ->
         TdnetToAppend(last.batch, ExistingUrls(store), calcNextIdStartTdnet(store))
    [] last.conn = "press" ->
         PressToAppend(last.batch, ExistingUrls(store), calcNextIdStart(store, "news"))
    [] OTHER -> << >>

\* C2: merge is idempotent: after a connector's merge step, running the same merge
\* step again with the same batch against the post-merge collection appends nothing.
C2_MergeIdempotent == last.conn # "none" => RerunAppends = << >>

\* a run has appended two items with the same url (the batch repeated a new url)
C2_Witness ==
  /\ last.wrote
  /\ Len(last.appended) = 2
  /\ last.appended[1].url = last.appended[2].url

\* C3: id monotonicity: a run that appends N items under a prefix with no id in the
\* persisted collection numbers them 1..N in input order, and the next appending
\* run of the same connector continues with N+1, N+2, ...
C3_IdMonotonic ==
  /\ (last.conn # "none" /\ last.appended # << >> /\ PrefixEmpty(last.pre, Prefix(last.conn)))
        => IdNums(last.appended) = [i \in 1..Len(last.appended) |-> i]
  /\ (last.expected > 0 /\ last.appended # << >>)
        => IdNums(last.appended) = [i \in 1..Len(last.appended) |-> last.expected + i - 1]

\* C4: id uniqueness: the ids of the persisted collection stay pairwise distinct
\* through every sequence of connector runs.
C4_IdsUnique == DistinctIds(store)

\* a run has appended two items under a prefix the collection already used
C4_Witness ==
  /\ Len(last.appended) = 2
  /\ ~PrefixEmpty(last.pre, Prefix(last.conn))

\* the batch items the merge contract appends: url non-empty and not in the base
Appendable(base, batch) ==
  SelectSeq(batch, LAMBDA c : c.url # "" /\ \A i \in DOMAIN base : base[i].url # c.url)

SameButId(a, b) ==
  a.url = b.url /\ a.title = b.title /\ a.publishedAt = b.publishedAt

\* C5: append semantics (TDnet, press): the post-merge collection is the pre-merge
\* collection unchanged, followed by exactly the batch items with a non-empty url
\* that no pre-merge item has, in batch order, unchanged except for the new id.
C5_AppendSemantics ==
  last.conn \in {"tdnet", "press"} =>
    LET exp == Appendable(last.pre, last.batch)
        n   == Len(last.pre)
    IN /\ Len(store) = n + Len(exp)
       /\ SubSeq(store, 1, n) = last.pre
       /\ \A i \in 1..Len(exp) :
            /\ SameButId(store[n + i], exp[i])
            /\ store[n + i].id.p = Prefix(last.conn)

\* a press merge over a non-empty collection that skipped one item and appended
\* the same new url twice
C5_Witness ==
  /\ last.conn = "press"
  /\ Len(last.pre) > 0
  /\ Len(last.appended) = 2
  /\ last.appended[1].url = last.appended[2].url

RECURSIVE IsSubsequence(_, _)
IsSubsequence(a, b) ==
  IF a = << >> THEN TRUE
  ELSE IF b = << >> THEN FALSE
  ELSE IF Head(a) = Head(b) THEN IsSubsequence(Tail(a), Tail(b))
  ELSE IsSubsequence(a, Tail(b))

\* C6: no removal by the pipeline: every item a merge has appended is still in the
\* persisted collection, unchanged and in the same relative order, after every later run.
C6_MergedItemsStay == IsSubsequence(log, store)

\* C7: a batch with zero appendable items makes the merge step write nothing and
\* leaves the persisted collection as the merge step found it.
C7_NoAppendNoWrite ==
  (last.conn # "none" /\ Appendable(last.base, last.batch) = << >>)
     => (~last.wrote /\ store = last.base)

\* a run whose non-empty batch held only empty or already persisted urls
C7_Witness ==
  /\ last.conn # "none"
  /\ Len(last.batch) = 2
  /\ last.batch[1].url = ""
  /\ last.batch[2].url = "u1"
  /\ Appendable(last.base, last.batch) = << >>

----------------------------------------------------------------------------
(* Properties of dedupeItems *)

\* the elements of arr at the indices K, in order
RECURSIVE Pick(_, _, _)
Pick(arr, K, i) ==
  IF i > Len(arr) THEN << >>
  ELSE (IF i \in K THEN <<arr[i]>> ELSE << >>) \o Pick(arr, K, i + 1)

\* out is arr minus exactly the items that Hit relates to an earlier kept item
DropsExactly(arr, out, Hit(_, _)) ==
  \E K \in SUBSET DOMAIN arr :
     /\ out = Pick(arr, K, 1)
     /\ \A i \in DOMAIN arr :
          i \notin K <=> \E j \in K : j < i /\ Hit(arr[i], arr[j])

\* the url key as the claim words it: the url up to the first '?' or '#'
ClaimUrlKey(url) ==
  LET P == {p \in DOMAIN url : url[p] \in {"#", "?"}}
  IN IF P = {} THEN url
     ELSE SubSeq(url, 1, (CHOOSE p \in P : \A r \in P : p <= r) - 1)

ClaimHit(a, b) ==
  \/ ClaimUrlKey(a.url) = ClaimUrlKey(b.url)
  \/ TitleKey(a.title) = TitleKey(b.title)

CodeHit(a, b) ==
  \/ KeyUrl(a.url) # << >> /\ KeyUrl(a.url) = KeyUrl(b.url)
  \/ TitleKey(a.title) # << >> /\ TitleKey(a.title) = TitleKey(b.title)

\* C1 (as stated): dedupeItems returns the input minus exactly the items whose url
\* key (url cut at the first '?' or '#') or normalised title equals that of an
\* already-kept item.
C1_DropsOnEqualKeys == dDone => DropsExactly(dIn, dOut, ClaimHit)

\* C1 (amended): dedupeItems returns the input, in input order, minus exactly the
\* items whose non-empty url key (the trimmed url cut at the first '?' or '#') or
\* non-empty normalised title equals that of an already-kept item.
C1_DropsOnEqualNonEmptyKeys == dDone => DropsExactly(dIn, dOut, CodeHit)

\* the spec's example: [A(url=u1), B(url=u1?x), C(title=A.title)] gives [A]
C1_Witness ==
  /\ dDone
  /\ dIn = << [url |-> <<"a">>, title |-> <<"t">>],
              [url |-> <<"a", "?", "x">>, title |-> <<"t", " ", "u">>],
              [url |-> <<"b">>, title |-> <<"T", " ">>] >>
  /\ dOut = << [url |-> <<"a">>, title |-> <<"t">>] >>

----------------------------------------------------------------------------
(* Properties of estimateImportance *)

\* C8: estimateImportance returns an integer between 1 and 5 for every item and time.
C8_ScoreBounds == sDone => sOut \in 1..5

\* a fresh company earnings item with tickers and an urgency word: 7 before the clamp
C8_Witness ==
  /\ sDone
  /\ sItem.category = "company" /\ sItem.type = "earnings"
  /\ sItem.tickers # << >> /\ sItem.publishedAt = Now0 - 1
  /\ sItem.title = <<"sokuho">>
  /\ sOut = 5

B(cond) == IF cond THEN 1 ELSE 0

\* C9: with publishedAt = null the score is min(5, 1 + [market]
\* + 2*[company and earnings/disclosure] + 2*[macro/fx/equityIndex]
\* + [earnings/disclosure] + [tickers non-empty] + [urgency keyword]).
C9_NullDateScore ==
  (sDone /\ sItem.publishedAt = Null) =>
     sOut = Min(5, 1 + B(sItem.category = "market")
                     + 2 * B(sItem.category = "company"
                             /\ sItem.type \in {"earnings", "disclosure"})
                     + 2 * B(sItem.type \in {"macro", "fx", "equityIndex"})
                     + B(sItem.type \in {"earnings", "disclosure"})
                     + B(sItem.tickers # << >>)
                     + B(\E w \in Range(sItem.tags) \cup Range(sItem.title) :
                            w \in UrgencyWords))

\* an undated company disclosure without tickers or urgency words scores 1 + 2 + 1
C9_Witness ==
  /\ sDone
  /\ sItem.publishedAt = Null
  /\ sItem.category = "company" /\ sItem.type = "disclosure"
  /\ sItem.tickers = << >> /\ sItem.tags = << >> /\ sItem.title = <<"nikkei">>
  /\ sOut = 4

\* C10: the freshness bonus is awarded exactly when publishedAt is non-null and
\* 0 <= now - publishedAt <= 24h; a publishedAt later than now earns nothing.
C10_FreshnessWindow ==
  sDone =>
    (FreshnessBonus(sItem, sNow) = 1
       <=> /\ sItem.publishedAt # Null
           /\ sNow - sItem.publishedAt >= 0
           /\ sNow - sItem.publishedAt <= DayMs)

----------------------------------------------------------------------------
(* Properties of normalizeItem *)

ItemFields ==
  {"id", "category", "title", "summary", "source", "url", "publishedAt", "tags",
   "locale", "verified", "thumbnail", "type", "tickers", "issuer"}

\* C11: normalizeItem returns an item for every raw record, and for a record that
\* carries nothing but a url (or whose optional fields are empty) the item has the
\* placeholder title, empty summary, source and thumbnail, no tags, no tickers,
\* locale 'ja', verified = true, category market, publishedAt null, a non-empty id.
C11_NormalizeTotal ==
  nStep >= 1 =>
    /\ DOMAIN nOut = ItemFields
    /\ (~Has(nIn, "title") \/ nIn.title = << >>) => nOut.title = UnknownTitle
    /\ ~Has(nIn, "summary") => nOut.summary = << >>
    /\ ~Has(nIn, "tags") => nOut.tags = << >>
    /\ ~Has(nIn, "verified") => nOut.verified = TRUE
    /\ ~Has(nIn, "category") => nOut.category = "market"
    /\ ~Has(nIn, "publishedAt") => nOut.publishedAt = Null
    /\ nOut.id # ""
    /\ DOMAIN nIn = {"url"} =>
         /\ nOut.source = << >> /\ nOut.thumbnail = "" /\ nOut.tickers = << >>
         /\ nOut.locale = "ja" /\ nOut.id = nRnd /\ nOut.url = nIn.url

C11_Witness ==
  /\ nStep >= 1
  /\ DOMAIN nIn = {"url"}
  /\ nOut.title = UnknownTitle /\ nOut.publishedAt = Null /\ nOut.id \in RandomIds

\* C13: publishedAt of the item is null whenever the raw value is absent, is the
\* value null or is not parseable as a timestamp, and the parsed timestamp otherwise.
C13_UnknownDateIsNull ==
  nStep >= 1 =>
    IF ~Has(nIn, "publishedAt") \/ nIn.publishedAt \in {Null, BadDate}
    THEN nOut.publishedAt = Null
    ELSE nOut.publishedAt = nIn.publishedAt

\* the rule table in its stated order
TypeRules ==
  << [words |-> EarningsWords,    type |-> "earnings"],
     [words |-> DisclosureWords,  type |-> "disclosure"],
     [words |-> FxWords,          type |-> "fx"],
     [words |-> MacroWords,       type |-> "macro"],
     [words |-> EquityIndexWords, type |-> "equityIndex"] >>

ItemText(item) ==
  ToLowerCase(item.title \o <<" ">> \o item.summary \o <<" ">> \o JoinTags(item.tags))

Matching(item) ==
  {i \in DOMAIN TypeRules : \E k \in DOMAIN ItemText(item) :
                               ItemText(item)[k] \in TypeRules[i].words}

RawTypeEmpty(x) == ~Has(x, "type") \/ x.type = ""

\* C14: when the raw type is empty the item's type is that of the first rule, in the
\* order earnings, disclosure, fx, macro, equityIndex, with a term in the lower-cased
\* title, summary and tags of the item; without a match it is companyNews for
\* category company and marketNews otherwise.
C14_FirstMatchingRule ==
  (nStep >= 1 /\ RawTypeEmpty(nIn)) =>
    IF Matching(nOut) = {}
    THEN nOut.type = IF nOut.category = "company" THEN "companyNews" ELSE "marketNews"
    ELSE \E i \in Matching(nOut) :
           /\ \A j \in Matching(nOut) : i <= j
           /\ nOut.type = TypeRules[i].type

\* a title with a disclosure term and an fx term, a summary with a macro term
C14_Witness ==
  /\ nStep >= 1 /\ RawTypeEmpty(nIn)
  /\ Has(nIn, "title") /\ nIn.title = <<"kaiji", "fx">>
  /\ Has(nIn, "summary")
  /\ Matching(nOut) = {2, 3, 4}
  /\ nOut.type = "disclosure"

\* C15: a non-empty raw type is returned unchanged whatever the text says, and
\* normalizing the item again gives the same type and issuer.
C15_ExplicitTypeWins ==
  /\ (nStep >= 1 /\ ~RawTypeEmpty(nIn)) => nOut.type = nIn.type
  /\ nStep = 2 => (nOut2.type = nOut.type /\ nOut2.issuer = nOut.issuer)

\* type 'policy' on a record whose title holds an earnings term, normalized twice
C15_Witness ==
  /\ nStep = 2
  /\ Has(nIn, "type") /\ nIn.type = "policy"
  /\ Has(nIn, "title") /\ nIn.title = <<"EPS">>
  /\ nOut.type = "policy" /\ nOut2.type = "policy"

----------------------------------------------------------------------------
(* Properties of the page: load, filter, search, dedupe, sort *)

Items == Range(all) \cup Range(view)

InLast24h(x) ==
  x.publishedAt # Null /\ Now0 - DayMs <= x.publishedAt /\ x.publishedAt <= Now0

\* positions of the records with a non-empty url whose verified is not false and
\* which pass the recency rule in force when the load finished
KeptAtLoad ==
  {i \in DOMAIN json :
     /\ "url" \in DOMAIN json[i] /\ json[i].url # << >>
     /\ "verified" \in DOMAIN json[i] => json[i].verified = TRUE
     /\ loadedWith => InLast24h(normalizeItem(json[i], ""))}

Ascending(S) ==
  [k \in 1..Cardinality(S) |-> CHOOSE i \in S : Cardinality({j \in S : j < i}) = k - 1]

\* C12: after the load state.all holds, in file order, exactly one normalized item
\* per record with a non-empty url and verified not false (that passes the load-time
\* recency rule); no record with verified = false or without url is in state.all or
\* a view, and an item from a record without the verified field has verified = true.
C12_LoadKeepsVerified ==
  /\ phase = "loading" => all = << >>
  /\ phase = "ready" =>
       /\ Len(all) = Cardinality(KeptAtLoad)
       /\ \A k \in DOMAIN all :
            all[k] = normalizeItem(json[Ascending(KeptAtLoad)[k]], all[k].id)
  /\ \A v \in Range(view) : v \in Range(all)
  /\ \A x \in Items :
       /\ x.verified = TRUE /\ x.url # << >>
       /\ \A i \in DOMAIN json :
            ("verified" \in DOMAIN json[i] /\ json[i].verified = FALSE
               /\ "url" \in DOMAIN json[i]) => x.url # json[i].url

\* an unverified record and a record without the verified field, loaded without window
C12_Witness ==
  /\ phase = "ready"
  /\ json = <<RawUnverified, RawBare>>
  /\ Len(all) = 1 /\ all[1].url = <<"d">> /\ all[1].verified = TRUE
  /\ view = all

\* C16: every item of state.all and state.view has a category of the enum, issuer
\* withIssuer exactly for category company, a non-empty type and title, and as tags
\* the first min(8, n) tags of its record in their order.
C16_ItemInvariant ==
  \A x \in Items :
    /\ x.category \in {"market", "company", "sns"}
    /\ x.issuer = IF x.category = "company" THEN "withIssuer" ELSE "noIssuer"
    /\ x.type # "" /\ x.title # << >>
    /\ Len(x.tags) <= 8
    /\ \E i \in DOMAIN json :
         /\ "url" \in DOMAIN json[i] /\ json[i].url = x.url
         /\ LET raw == IF "tags" \in DOMAIN json[i] THEN json[i].tags ELSE << >>
            IN /\ Len(x.tags) = Min(8, Len(raw))
               /\ \A k \in DOMAIN x.tags : x.tags[k] = raw[k]

\* the record with ten tags, no title and category 'bogus' is shown
C16_Witness ==
  \E x \in Range(view) :
    /\ x.url = <<"d">> /\ x.tags = SubSeq(TenTags, 1, 8)
    /\ x.category = "market" /\ x.issuer = "noIssuer"
    /\ x.title = UnknownTitle /\ x.type = "marketNews"

\* text = pre \o q \o post
Contains(text, q) ==
  \E a \in 0..Len(text) : \E b \in a..Len(text) : SubSeq(text, a + 1, b) = q

Lower(q) == [i \in DOMAIN q |-> LowerChar(q[i])]

SearchMatches(x) ==
  LET q == Lower(qstate.query)
  IN \/ Contains(Lower(x.title), q)
     \/ Contains(Lower(x.summary), q)
     \/ Contains(Lower(x.source), q)
     \/ \E t \in Range(x.tags) \cup Range(x.tickers) : Contains(Lower(<<t>>), q)

PassesEnums(x) ==
  /\ qstate.filter # "all" => x.category = qstate.filter
  /\ qstate.type # "all" => x.type = qstate.type
  /\ qstate.issuer # "all" => x.issuer = qstate.issuer

PassesWindow(x) == qstate.onlyWithin24h => InLast24h(x)

PassesSearch(x) == qstate.query # << >> => SearchMatches(x)

Passes(x) == PassesWindow(x) /\ PassesEnums(x) /\ PassesSearch(x)

Position(seq, x) == CHOOSE i \in DOMAIN seq : seq[i] = x

\* out is a permutation of in, ordered by the comparator, ties in the order of in
StableSorted(out, in) ==
  /\ Len(out) = Len(in) /\ Range(out) = Range(in)
  /\ \A i, j \in DOMAIN out :
       i < j => \/ Compare(out[i], out[j], qstate.sort) < 0
                \/ /\ Compare(out[i], out[j], qstate.sort) = 0
                   /\ Position(in, out[i]) < Position(in, out[j])

\* C17: the view is sort(dedupe(filter(state.all))): the filters select in collection
\* order, dedupe (if enabled) runs on what the filters left, the sort comes last; so
\* an item the filters removed never makes another item a duplicate, and among
\* duplicates the earliest in collection order survives.
C17_PipelineOrder ==
  LET filtered == Pick(all, {i \in DOMAIN all : Passes(all[i])}, 1)
  IN /\ \E K \in SUBSET DOMAIN filtered :
          LET deduped == Pick(filtered, K, 1)
          IN /\ IF qstate.dedupe THEN DropsExactly(filtered, deduped, CodeHit)
                ELSE K = DOMAIN filtered
             /\ StableSorted(view, deduped)
     /\ \A i \in DOMAIN all :
          (Passes(all[i]) /\ \A j \in 1..(i - 1) :
                                Passes(all[j]) => ~CodeHit(all[i], all[j]))
             => all[i] \in Range(view)
     /\ \A i, j \in DOMAIN all :
          (i < j /\ qstate.dedupe /\ all[i] \in Range(view) /\ CodeHit(all[j], all[i]))
             => all[j] \notin Range(view)

\* two duplicates pass the filters; the earlier one is shown although the later one
\* was published later
C17_Witness ==
  /\ qstate.dedupe /\ Len(all) = 2
  /\ Passes(all[1]) /\ Passes(all[2]) /\ CodeHit(all[2], all[1])
  /\ all[2].publishedAt > all[1].publishedAt
  /\ view = <<all[1]>>

\* C18: while onlyWithin24h is on, every item of the view has a publishedAt in
\* [now - 24h, now], and every item of state.all in that window that passes the
\* other filters and is no duplicate of an earlier such item is in the view.
C18_WindowActive ==
  qstate.onlyWithin24h =>
    /\ \A v \in Range(view) : InLast24h(v)
    /\ \A i \in DOMAIN all :
         (/\ InLast24h(all[i]) /\ PassesEnums(all[i]) /\ PassesSearch(all[i])
          /\ qstate.dedupe =>
               \A j \in 1..(i - 1) :
                  (InLast24h(all[j]) /\ PassesEnums(all[j]) /\ PassesSearch(all[j]))
                     => ~CodeHit(all[i], all[j]))
            => all[i] \in Range(view)

\* state.all holds an item older than 24h and a recent one; only the recent one shows
C18_Witness ==
  /\ qstate.onlyWithin24h
  /\ \E x \in Range(all) : x.publishedAt = Now0 - DayMs - 1 /\ x \notin Range(view)
  /\ \E x \in Range(view) : x.publishedAt = Now0 - 1000

CountUrl(seq, u) == Cardinality({i \in DOMAIN seq : "url" \in DOMAIN seq[i] /\ seq[i].url = u})

\* C19: after the load, with the window switched off, category, type and issuer
\* 'all', empty search and dedupe off, the view is a permutation of the records
\* that have a url and are not verified = false.
C19_WindowOffShowsAll ==
  (/\ phase = "ready" /\ ~qstate.onlyWithin24h /\ ~qstate.dedupe
   /\ qstate.filter = "all" /\ qstate.type = "all" /\ qstate.issuer = "all"
   /\ qstate.query = << >>)
    => LET stored == SelectSeq(json, LAMBDA r :
                        /\ "url" \in DOMAIN r /\ r.url # << >>
                        /\ "verified" \in DOMAIN r => r.verified = TRUE)
       IN /\ Len(view) = Len(stored)
          /\ \A r \in Range(stored) : CountUrl(view, r.url) = CountUrl(stored, r.url)

\* C20: the query is stored trimmed; a non-empty query keeps an item exactly when
\* its lower-cased text is part of the lower-cased title, summary, source, a tag or
\* a ticker, and an empty query keeps every item.
C20_SearchSubstring ==
  /\ qstate.query # << >> =>
       (qstate.query[1] # " " /\ qstate.query[Len(qstate.query)] # " ")
  /\ \A v \in Range(view) : qstate.query # << >> => SearchMatches(v)
  /\ ~qstate.dedupe =>
       \A x \in Range(all) :
         x \in Range(view) <=>
           (PassesWindow(x) /\ PassesEnums(x) /\ (qstate.query = << >> \/ SearchMatches(x)))

\* 'Sony' typed with a leading blank finds the item tagged SONY, not the bare one
C20_Witness ==
  /\ qstate.query = <<"Sony">> /\ ~qstate.dedupe /\ ~qstate.onlyWithin24h
  /\ \E x \in Range(view) : x.tags = <<"SONY">> /\ ~Contains(Lower(x.title), <<"sony">>)
  /\ \E x \in Range(all) : x.url = <<"d">> /\ x \notin Range(view)

\* C22: the view is a permutation of the filtered and deduplicated items in which
\* items with equal sort keys keep their order, and no render changes state.all:
\* between two states of the same load phase state.all is the same.
C22_StableSortLeavesAll ==
  /\ [](LET kept == DedupeStage(FilterStages(all, qstate, Now0), qstate)
        IN /\ Len(view) = Len(kept)
           /\ \A x \in Range(kept) : x \in Range(view)
           /\ \A i, j \in DOMAIN view :
                (i < j /\ Compare(view[i], view[j], qstate.sort) = 0)
                   => Position(kept, view[i]) < Position(kept, view[j])
           /\ \A i, j \in DOMAIN view :
                i < j => Compare(view[i], view[j], qstate.sort) <= 0)
  /\ [][phase' = phase => all' = all]_vars

\* the same record twice in the file: two items with equal titles, sorted by title
C22_Witness ==
  /\ phase = "ready" /\ qstate.sort = "title_asc"
  /\ Len(all) = 2 /\ all[1].title = all[2].title /\ all[1] # all[2]
  /\ view = all

\* C25: when the fetch or the parse of news.json fails, state.all is empty, render
\* still runs, the view is empty and the empty-state indicator is shown.
C25_LoadFailureIsEmpty ==
  phase = "failed" => (all = << >> /\ view = << >> /\ emptyHidden = FALSE)

C25_Witness ==
  /\ phase = "failed" /\ Len(json) = 2
  /\ all = << >> /\ view = << >> /\ ~emptyHidden

\* C27: after the load the view depends on the stored collection and the query
\* state only: it is the view obtained when every event arrives before the load
\* completes, whatever the order in which events and load completion happened.
C27_ViewDependsOnQueryOnly ==
  phase = "ready" =>
    view = applyFilter(loadData(json, qstate.onlyWithin24h, Now0), qstate, Now0)

----------------------------------------------------------------------------
(* Properties of the sort and of values outside the enums *)

Before(i, j) == i \in DOMAIN view /\ j \in DOMAIN view /\ i < j

\* C21: under date_desc no item without publishedAt stands ahead of an item with
\* one, and under date_asc every item without publishedAt stands ahead of every
\* item with one.
C21_NullDateSortsLast ==
  /\ qstate.sort = "date_desc" =>
       \A i, j \in DOMAIN view :
          Before(i, j) => ~(view[i].publishedAt = Null /\ view[j].publishedAt # Null)
  /\ qstate.sort = "date_asc" =>
       \A i, j \in DOMAIN view :
          Before(i, j) => ~(view[i].publishedAt # Null /\ view[j].publishedAt = Null)

KnownSorts == {"date_desc", "date_asc", "title_asc", "title_desc"}

\* C23: with a sort value outside date_desc, date_asc, title_asc, title_desc the
\* view is ordered as under date_desc.
C23_UnknownSortIsDateDesc ==
  qstate.sort \notin KnownSorts =>
    view = applyFilter(all, [qstate EXCEPT !.sort = "date_desc"], Now0)

\* the later item is stored behind the earlier one and shown in front of it
C23_Witness ==
  /\ qstate.sort = "relevance"
  /\ Len(all) = 2 /\ all[1].publishedAt = Now0 - 1000 /\ all[2].publishedAt = Now0 - 10
  /\ view = <<all[2], all[1]>>

\* C24: a category, type or issuer filter value that is neither 'all' nor a value
\* of its enum gives the view that 'all' gives.
C24_UnknownFilterIsAll ==
  /\ qstate.filter \notin {"all", "market", "company", "sns"} =>
       view = applyFilter(all, [qstate EXCEPT !.filter = "all"], Now0)
  /\ qstate.type \notin {"all"} \cup Types =>
       view = applyFilter(all, [qstate EXCEPT !.type = "all"], Now0)
  /\ qstate.issuer \notin {"all", "withIssuer", "noIssuer"} =>
       view = applyFilter(all, [qstate EXCEPT !.issuer = "all"], Now0)

----------------------------------------------------------------------------
(* Properties of one connector process *)

JobEnded == job.conn # "none" /\ job.pc \in {"exited", "crashed"}

\* C26: when a target fails the run goes on: the loop still passes every target,
\* no target is visited twice, the run reaches its merge and the items collected
\* from the other targets are in the store.
C26_TargetFailureIsContained ==
  (JobEnded /\ job.failed # {}) =>
    /\ job.pc = "exited"
    /\ job.idx = MaxTargets
    /\ \A i, j \in DOMAIN job.tried : i # j => job.tried[i] # job.tried[j]
    /\ \A i \in DOMAIN job.added :
         (job.added[i].url # "" /\ job.added[i].publishedAt # Null)
            => job.added[i].url \in ExistingUrls(store)

DistinctUrls(items) ==
  \A i, j \in DOMAIN items : i # j => items[i].url # items[j].url

\* C28: when the urls of the store are pairwise distinct before a connector run
\* they are pairwise distinct after it.
C28_UrlsStayDistinct ==
  (job.conn # "none" /\ job.pc = "exited" /\ DistinctUrls(job.pre))
     => DistinctUrls(store)

\* C29: the press connector never holds more than GLOBAL_LIMIT collected items and
\* never takes more than PER_SITE_LIMIT items from one page.
C29_PressLimits ==
  job.conn = "press" =>
    /\ Len(job.added) <= job.globalLimit
    /\ \A k \in DOMAIN job.lists : job.lists[k] <= job.perLimit

\* C30: the merge happens after the target loop has passed every target, its base
\* is the file as it is at that moment (in X the re-read file), and the write keeps
\* everything the file held: whatever was written before the merge read survives.
C30_MergeReadsThenWrites ==
  [][(job.pc = "fetch" /\ job'.pc = "exited") =>
       /\ job.idx = MaxTargets
       /\ job'.base = store
       /\ Len(store') >= Len(store)
       /\ SubSeq(store', 1, Len(store)) = store]_vars

\* another process wrote during the X fetches; the merge kept its item and appended
\* behind it
C30_Witness ==
  /\ job.conn = "x" /\ job.pc = "exited" /\ job.others = 1
  /\ \E i, j \in DOMAIN store :
       i < j /\ store[i].url = OtherUrl /\ store[j].id.p = "sns" /\ store[j].url = "u5"

====
